---- MODULE Spec2Model ----
(***************************************************************************)
(* Model of rviz's PointCloudBase display                                  *)
(* (src/rviz/displays/point_cloud_base.cpp): the buffer of past clouds     *)
(* (clouds_), the renderer's point buffer (cloud_), the intensity bounds   *)
(* and the channel selection, with the operations addMessage, update,      *)
(* setDecayTime, reset, onDisable and fixedFrameChanged.                   *)
(*                                                                         *)
(* Times are integers in tenths of a second (0.5 s is 5, 1.0 s is 10).     *)
(* Float values of channels and bounds are integers: every value used is   *)
(* exactly representable as a float32.                                     *)
(***************************************************************************)
EXTENDS Integers, Sequences, FiniteSets, TLC

VARIABLES
  clouds_,                          \* D_CloudInfo clouds_: the buffer, oldest first
  cloud_,                           \* ogre_tools::PointCloud* cloud_: the renderer's points, head first
  new_cloud_,
  min_intensity_,
  max_intensity_,
  auto_compute_intensity_bounds_,
  intensity_bounds_changed_,
  channel_color_idx_,
  point_decay_time_,
  channel_options,                  \* the options of channel_property_
  style_,
  clouds_mutex_,                    \* boost::mutex clouds_mutex_: the thread that holds it, "" when free
  render_mutex_,                    \* the render lock of RenderAutoLock: the thread that holds it, "" when free
  th,                               \* per I/O thread: position and locals of an addMessage in flight
  rt,                               \* the render thread: position and locals of an update in flight
  ui,                               \* the UI thread: position of a reset or onDisable in flight
  op,                               \* the last operation that returned, with its argument
  scen                              \* how far the run has followed Scenario (-1: it left it)

vars == <<clouds_, cloud_, new_cloud_, min_intensity_, max_intensity_,
          auto_compute_intensity_bounds_, intensity_bounds_changed_,
          channel_color_idx_, point_decay_time_, channel_options, style_,
          clouds_mutex_, render_mutex_, th, rt, ui, op, scen>>

\* the style, the two locks and the positions of the render and UI threads
aux == <<style_, clouds_mutex_, render_mutex_, rt, ui>>

----------------------------------------------------------------------------
(* Bounds of the model *)

MaxClouds == 2        \* with a decay time set, addMessage is not taken when the buffer holds this many entries
MaxSends == 1         \* clouds each I/O thread delivers in a concurrent run
MaxAge == 6           \* with no decay, update is not taken when it would leave an entry older than this

(* Program constants *)

IntensityCap == 4096
InitMinBound == 999999
InitMaxBound == -999999

Billboards == 0
Points == 1
StyleCount == 2

Intensity == 0
ColorRGBSpace == 1
NormalSphere == 2
Curvature == 3
ChannelRenderCount == 4

(* Inputs *)

DecayTimes == {0, 5}
Dts == {1, 10}
TfShift == 100

Pt(x, y, z) == <<x, y, z>>
Chan(n, v) == [name |-> n, vals |-> v]

\* A: 2 points, a well-formed intensity channel with a value above the cap
MsgA == [id |-> "A", pts |-> <<Pt(0, 0, 0), Pt(1, 0, 0)>>,
         chan |-> <<Chan("intensity", <<1, 5000>>)>>]
\* B: 3 points, nx without ny/nz, a curvature channel one value short
MsgB == [id |-> "B", pts |-> <<Pt(0, 1, 0), Pt(1, 1, 0), Pt(2, 1, 0)>>,
         chan |-> <<Chan("nx", <<7, 8, 9>>), Chan("curvature", <<3, 4>>)>>]
\* Z: no points, an (empty) intensity channel
MsgZ == [id |-> "Z", pts |-> <<>>, chan |-> <<Chan("intensities", <<>>)>>]

Messages == {MsgA, MsgB, MsgZ}

\* N: 2 points with well-formed nx, ny, nz and a packed rgb channel
MsgN == [id |-> "N", pts |-> <<Pt(0, 0, 1), Pt(0, 1, 1)>>,
         chan |-> <<Chan("nx", <<5, 6>>), Chan("ny", <<7, 8>>), Chan("nz", <<9, 10>>),
                    Chan("rgb", <<0, 255>>)>>]
\* K: 2 points, g and r components, then a well-formed curvature channel
MsgK == [id |-> "K", pts |-> <<Pt(3, 0, 0), Pt(3, 1, 0)>>,
         chan |-> <<Chan("g", <<1, 1>>), Chan("r", <<1, 0>>), Chan("curvatures", <<9, 2>>)>>]
\* U: 1 point, no channel that the Channel option recognizes
MsgU == [id |-> "U", pts |-> <<Pt(4, 4, 4)>>,
         chan |-> <<Chan("g", <<1>>), Chan("ny", <<2>>)>>]
\* W: 2 points, two well-formed intensity channels
MsgW == [id |-> "W", pts |-> <<Pt(5, 0, 0), Pt(5, 1, 0)>>,
         chan |-> <<Chan("intensities", <<3, 4>>), Chan("intensity", <<8, 7>>)>>]

\* M: 2 points with nx and nz of 2 values and ny of 1 value, then an intensity channel
MsgM == [id |-> "M", pts |-> <<Pt(6, 0, 0), Pt(6, 1, 0)>>,
         chan |-> <<Chan("nx", <<1, 2>>), Chan("ny", <<3>>), Chan("nz", <<5, 6>>),
                    Chan("intensity", <<4, 9>>)>>]

AllMessages == Messages \cup {MsgN, MsgK, MsgU, MsgW, MsgM}

\* what vals[i] can return when i is past the end of the vector; the read can
\* also end the program, after which no step is taken
Garbage == {-31337, 31337}

\* the values to draw a stray read from: one stands for all for a cloud whose
\* normal channels all have a value for every point
StrayValues(m) ==
  IF \E c \in DOMAIN m.chan :
       m.chan[c].name \in {"nx", "ny", "nz"} /\ Len(m.chan[c].vals) < Len(m.pts)
  THEN Garbage ELSE {0}

\* the clouds and selections of the runs that look at the per-point reads
ReadMessages == {MsgB, MsgN, MsgK, MsgM}
ReadChannels == {-1, Intensity, ColorRGBSpace, NormalSphere, Curvature}

\* the clouds, bounds, selections and tick of the runs of the intensity setters
BoundsMessages == {MsgA, MsgB, MsgZ, MsgK, MsgW}
BoundsVals == {10, 5000}
BoundsChannels == {-1, Intensity, Curvature}

\* the clouds, styles and selections of the runs of the style and channel setters
ChannelMessages == {MsgB, MsgN, MsgK, MsgU}
Styles == {-1, Billboards, Points, StyleCount}
ChannelIndices == {-2, -1, Intensity, ColorRGBSpace, NormalSphere, Curvature, ChannelRenderCount}

Threads == {1, 2}

----------------------------------------------------------------------------
(* Helpers *)

Min(a, b) == IF a < b THEN a ELSE b
Max(a, b) == IF a > b THEN a ELSE b

\* ogre_tools::PointCloud: addPoints appends at the tail, popPoints takes
\* points off the head (at most those that are there), clear drops all
addPoints(rc, points) == rc \o points
popPoints(rc, n) == SubSeq(rc, Min(n, Len(rc)) + 1, Len(rc))
clearPoints(rc) == <<>>

\* tf::TransformListener::transformPointCloud, when it does not throw
transformPointCloud(pts) == [i \in DOMAIN pts |-> Pt(pts[i][1] + TfShift, pts[i][2], pts[i][3])]

\* robotToOgre (common.h)
robotToOgre(p) == Pt(0 - p[2], p[3], 0 - p[1])

\* getROSCloudChannelIndex (common.h): index of the first channel of that name, -1 if none
getROSCloudChannelIndex(chan, name) ==
  IF \E i \in DOMAIN chan : chan[i].name = name
  THEN (CHOOSE i \in DOMAIN chan : chan[i].name = name /\ \A j \in 1..(i - 1) : chan[j].name # name) - 1
  ELSE -1

----------------------------------------------------------------------------
(* The setters' assignments with their clamps *)

\* a setMinIntensity without the clamp
ClampMin_NoClamp(val, mx) == val

\* setMinIntensity: the new min_intensity_, given max_intensity_
ClampMin(val, mx) == IF val > mx THEN mx ELSE val

\* setMaxIntensity: the new max_intensity_, given min_intensity_
ClampMax(val, mn) == IF val < mn THEN mn ELSE val

----------------------------------------------------------------------------
(* transformCloud, lines 402-593: everything before the renderer is touched *)

\* the loop that caps a channel's values and scans their bounds
RECURSIVE ScanBounds(_, _, _)
ScanBounds(vals, i, acc) ==
  IF i > Len(vals) THEN acc
  ELSE LET intensity == Min(vals[i], IntensityCap)
       IN ScanBounds(vals, i + 1,
                     [vals |-> Append(acc.vals, intensity),
                      min |-> Min(acc.min, intensity),
                      max |-> Max(acc.max, intensity)])

\* the first loop over the channels: validity, auto bounds, normals requested
RECURSIVE ScanChannels(_, _, _, _, _, _)
ScanChannels(chan, index, point_count, auto, idx, acc) ==
  IF index > Len(chan) THEN acc
  ELSE
    LET c == chan[index]
        channel_size_correct == Len(c.vals) = point_count
        valid == Append(acc.valid, channel_size_correct)
        scan == ScanBounds(c.vals, 1, [vals |-> <<>>, min |-> InitMinBound, max |-> InitMaxBound])
        next ==
          IF auto /\ channel_size_correct /\ c.name \in {"intensity", "intensities"} /\ idx = Intensity
            THEN [acc EXCEPT !.chan[index].vals = scan.vals, !.min = scan.min, !.max = scan.max,
                             !.changed = TRUE, !.valid = valid]
          ELSE IF auto /\ channel_size_correct /\ c.name \in {"curvature", "curvatures"} /\ idx = Curvature
            THEN [acc EXCEPT !.chan[index].vals = scan.vals, !.min = scan.min, !.max = scan.max,
                             !.changed = TRUE, !.valid = valid]
          ELSE IF c.name = "nx" /\ idx = NormalSphere
            THEN [acc EXCEPT !.use_normals = TRUE, !.valid = valid]
          ELSE [acc EXCEPT !.valid = valid]
    IN ScanChannels(chan, index + 1, point_count, auto, idx, next)

\* chan.vals[i] of std::vector, which does not check i: g when i is past the end
Read(vals, i, g) == IF i \in DOMAIN vals THEN vals[i] ELSE g

\* an output point array with no fallback: a missing ny or nz reads as 0
OutputPoints_NoFallback(id, pts, chan, use_normals_requested, g) ==
  LET nx_idx == getROSCloudChannelIndex(chan, "nx")
      ny_idx == getROSCloudChannelIndex(chan, "ny")
      nz_idx == getROSCloudChannelIndex(chan, "nz")
  IN [i \in DOMAIN pts |->
        [src |-> id,
         pos |-> IF use_normals_requested /\ nx_idx # -1
                 THEN robotToOgre(Pt(Read(chan[nx_idx + 1].vals, i, g),
                                     IF ny_idx # -1 THEN Read(chan[ny_idx + 1].vals, i, g) ELSE 0,
                                     IF nz_idx # -1 THEN Read(chan[nz_idx + 1].vals, i, g) ELSE 0))
                 ELSE robotToOgre(pts[i])]]

\* the output point array (lines 480-521)
OutputPoints(id, pts, chan, use_normals_requested, g) ==
  LET nx_idx == getROSCloudChannelIndex(chan, "nx")
      ny_idx == getROSCloudChannelIndex(chan, "ny")
      nz_idx == getROSCloudChannelIndex(chan, "nz")
      use_normals_as_coordinates ==
        IF use_normals_requested /\ (ny_idx = -1 \/ nz_idx = -1) THEN FALSE ELSE use_normals_requested
  IN [i \in DOMAIN pts |->
        [src |-> id,
         pos |-> IF use_normals_as_coordinates /\ nx_idx # -1 /\ ny_idx # -1 /\ nz_idx # -1
                 THEN robotToOgre(Pt(Read(chan[nx_idx + 1].vals, i, g),
                                     Read(chan[ny_idx + 1].vals, i, g),
                                     Read(chan[nz_idx + 1].vals, i, g)))
                 ELSE robotToOgre(pts[i])]]

\* lines 499-503: the channels whose vals[i] the point loop reads for every point
NormalReads(chan, use_normals_requested) ==
  LET nx_idx == getROSCloudChannelIndex(chan, "nx")
      ny_idx == getROSCloudChannelIndex(chan, "ny")
      nz_idx == getROSCloudChannelIndex(chan, "nz")
  IN IF use_normals_requested /\ nx_idx # -1 /\ ny_idx # -1 /\ nz_idx # -1
     THEN {nx_idx + 1, ny_idx + 1, nz_idx + 1}
     ELSE {}

\* lines 545-593: the channels whose vals[i] the colouring loop reads for every point
ColourReads(chan, valid_channels, idx) ==
  {c \in DOMAIN chan :
     /\ valid_channels[c]
     /\ \/ idx = Intensity /\ chan[c].name \in {"intensity", "intensities"}
        \/ idx = Curvature /\ chan[c].name \in {"curvature", "curvatures"}
        \/ idx = ColorRGBSpace /\ chan[c].name \in {"rgb", "r", "g", "b"}}

\* a reprojection that leaves no points when the TF lookup throws
ReprojectedPoints_DropOnFail(m, tf_ok) == IF tf_ok THEN transformPointCloud(m.pts) ELSE <<>>

\* lines 410-417: the message's points after the try/catch around transformPointCloud
ReprojectedPoints(m, tf_ok) == IF tf_ok THEN transformPointCloud(m.pts) ELSE m.pts

\* the CloudInfo, the new bounds and the point array that transformCloud computes
TransformCompute(m, tf_ok, auto, idx, mn, mx, changed, g) ==
  LET pts == ReprojectedPoints(m, tf_ok)
      point_count == Len(pts)
      scanned == ScanChannels(m.chan, 1, point_count, auto, idx,
                              [chan |-> m.chan, min |-> mn, max |-> mx, changed |-> changed,
                               use_normals |-> FALSE, valid |-> <<>>])
  IN [info |-> [message_ |-> [id |-> m.id, pts |-> pts, chan |-> scanned.chan],
                time_ |-> 0,
                num_points_ |-> point_count],
      min |-> scanned.min,
      max |-> scanned.max,
      changed |-> scanned.changed,
      valid_channels |-> scanned.valid,
      reads |-> IF point_count = 0 THEN {}
                ELSE NormalReads(scanned.chan, scanned.use_normals)
                       \cup ColourReads(scanned.chan, scanned.valid, idx),
      points |-> OutputPoints(m.id, pts, scanned.chan, scanned.use_normals, g)]

\* a renderer step that never clears
RenderPoints_NoClear(rc, decay, points) ==
  IF points # <<>> THEN addPoints(rc, points) ELSE rc

\* transformCloud, lines 595-607: the renderer, under the render lock
RenderPoints(rc, decay, points) ==
  LET cleared == IF decay = 0 THEN clearPoints(rc) ELSE rc
  IN IF points # <<>> THEN addPoints(cleared, points) ELSE cleared

\* a push at the head of the buffer
PushCloud_Front(q, decay, info) ==
  LET cleared == IF decay = 0 THEN <<>> ELSE q
  IN <<info>> \o cleared

\* a push that never clears
PushCloud_NoClear(q, decay, info) == Append(q, info)

\* processMessage, lines 386-397: the buffer, under clouds_mutex_
PushCloud(q, decay, info) ==
  LET cleared == IF decay = 0 THEN <<>> ELSE q
  IN Append(cleared, info)

----------------------------------------------------------------------------
(* update *)

\* lines 259-264
AgeAll(q, dt) == [i \in DOMAIN q |-> [q[i] EXCEPT !.time_ = @ + dt]]

\* an eviction loop that also removes an entry whose age equals the decay time
RECURSIVE Evict_GE(_, _)
Evict_GE(st, decay) ==
  IF st.q # <<>> /\ Head(st.q).time_ >= decay
  THEN Evict_GE([q |-> Tail(st.q),
                 rc |-> popPoints(st.rc, Head(st.q).num_points_),
                 removed |-> st.removed + 1], decay)
  ELSE st

\* an eviction that tests the head once instead of looping
Evict_Once(st, decay) ==
  IF st.q # <<>> /\ Head(st.q).time_ > decay
  THEN [q |-> Tail(st.q),
        rc |-> popPoints(st.rc, Head(st.q).num_points_),
        removed |-> st.removed + 1]
  ELSE st

\* lines 266-280: the eviction loop; st is [q, rc, removed]
RECURSIVE Evict(_, _)
Evict(st, decay) ==
  IF st.q # <<>> /\ Head(st.q).time_ > decay
  THEN Evict([q |-> Tail(st.q),
              rc |-> popPoints(st.rc, Head(st.q).num_points_),
              removed |-> st.removed + 1], decay)
  ELSE st

\* an eviction that runs whatever the decay time
EvictIfDecaying_Always(st, decay) == Evict(st, decay)

\* lines 266-280: the eviction loop runs only with a decay time above 0
EvictIfDecaying(st, decay) == IF decay > 0 THEN Evict(st, decay) ELSE st

\* a refresh in which the last recognized channel takes the selection
RECURSIVE RefreshChannels_LastRole(_, _, _)
RefreshChannels_LastRole(chan, index, acc) ==
  IF index > Len(chan) THEN acc
  ELSE
    LET role == IF chan[index].name \in {"intensity", "intensities"} THEN Intensity
                ELSE IF chan[index].name \in {"rgb", "r"} THEN ColorRGBSpace
                ELSE IF chan[index].name = "nx" THEN NormalSphere
                ELSE IF chan[index].name \in {"curvature", "curvatures"} THEN Curvature
                ELSE -1
        next == IF role = -1 THEN acc
                ELSE [idx |-> role, options |-> Append(acc.options, role)]
    IN RefreshChannels_LastRole(chan, index + 1, next)

\* lines 293-332: the options and the default selection from a cloud's channels
RECURSIVE RefreshChannels(_, _, _)
RefreshChannels(chan, index, acc) ==
  IF index > Len(chan) THEN acc
  ELSE
    LET name == chan[index].name
        role == IF name \in {"intensity", "intensities"} THEN Intensity
                ELSE IF name \in {"rgb", "r"} THEN ColorRGBSpace
                ELSE IF name = "nx" THEN NormalSphere
                ELSE IF name \in {"curvature", "curvatures"} THEN Curvature
                ELSE -1
        next == IF role = -1 THEN acc
                ELSE [idx |-> IF acc.idx = -1 THEN role ELSE acc.idx,
                      options |-> Append(acc.options, role)]
    IN RefreshChannels(chan, index + 1, next)

----------------------------------------------------------------------------
(* The run of the decay eviction scenario *)

Scenario == << <<"setDecayTime", 5>>, <<"addMessage", "A">>, <<"update", 1>>,
               <<"addMessage", "B">>, <<"update", 10>> >>

Follow(name, arg) ==
  IF scen >= 0 /\ scen < Len(Scenario) /\ Scenario[scen + 1] = <<name, arg>>
  THEN scen + 1 ELSE -1

Idle == [pc |-> "idle", sent |-> 0]

AllIdle == \A t \in Threads : th[t].pc = "idle"

----------------------------------------------------------------------------
(* State after construction (lines 57-87) *)

Init ==
  /\ clouds_ = <<>>
  /\ cloud_ = <<>>
  /\ new_cloud_ = FALSE
  /\ min_intensity_ = 0
  /\ max_intensity_ = IntensityCap
  /\ auto_compute_intensity_bounds_ = TRUE
  /\ intensity_bounds_changed_ = FALSE
  /\ channel_color_idx_ = -1
  /\ point_decay_time_ = 0
  /\ channel_options = <<>>
  /\ style_ = Billboards
  /\ clouds_mutex_ = ""
  /\ render_mutex_ = ""
  /\ th = [t \in Threads |-> Idle]
  /\ rt = [pc |-> "idle"]
  /\ ui = [pc |-> "idle"]
  /\ op = [name |-> "init", arg |-> 0, n |-> 0, len |-> 0]
  /\ scen = 0

----------------------------------------------------------------------------
(* The operations, each a complete call.  op records the call that returned  *)
(* last: its name, its argument, n (addMessage: 1 iff the TF reprojection    *)
(* succeeded; update: the number of entries evicted) and len, the length of  *)
(* the buffer when it was called.                                            *)

\* addMessage -> processMessage -> transformCloud
addMessage(m, tf_ok) ==
  \E g \in StrayValues(m) :
  LET t == TransformCompute(m, tf_ok, auto_compute_intensity_bounds_, channel_color_idx_,
                            min_intensity_, max_intensity_, intensity_bounds_changed_, g)
  IN /\ AllIdle
     /\ point_decay_time_ = 0 \/ Len(clouds_) < MaxClouds
     /\ min_intensity_' = t.min
     /\ max_intensity_' = t.max
     /\ intensity_bounds_changed_' = t.changed
     /\ cloud_' = RenderPoints(cloud_, point_decay_time_, t.points)
     /\ clouds_' = PushCloud(clouds_, point_decay_time_, t.info)
     /\ new_cloud_' = TRUE
     /\ op' = [name |-> "addMessage", arg |-> m.id, n |-> IF tf_ok THEN 1 ELSE 0, len |-> Len(clouds_),
               reads |-> t.reads]
     /\ scen' = Follow("addMessage", m.id)
     /\ UNCHANGED <<auto_compute_intensity_bounds_, channel_color_idx_, point_decay_time_,
                    channel_options, th>>
     /\ UNCHANGED aux

\* update(dt), lines 245-344
Tick(dt) ==
  LET mn == IF intensity_bounds_changed_ THEN ClampMin(min_intensity_, max_intensity_) ELSE min_intensity_
      mx == IF intensity_bounds_changed_ THEN ClampMax(max_intensity_, mn) ELSE max_intensity_
      aged == [q |-> AgeAll(clouds_, dt), rc |-> cloud_, removed |-> 0]
      ev == EvictIfDecaying(aged, point_decay_time_)
      refresh == new_cloud_ /\ ev.q # <<>>
      r == RefreshChannels(Head(ev.q).message_.chan, 1, [idx |-> channel_color_idx_, options |-> <<>>])
  IN /\ point_decay_time_ > 0 \/ \A i \in DOMAIN ev.q : ev.q[i].time_ <= MaxAge
     /\ min_intensity_' = mn
     /\ max_intensity_' = mx
     /\ intensity_bounds_changed_' = FALSE
     /\ clouds_' = ev.q
     /\ cloud_' = ev.rc
     /\ channel_options' = IF refresh THEN r.options ELSE channel_options
     /\ channel_color_idx_' = IF refresh THEN r.idx ELSE channel_color_idx_
     /\ new_cloud_' = FALSE
     /\ op' = [name |-> "update", arg |-> dt, n |-> ev.removed, len |-> Len(clouds_)]
     /\ scen' = Follow("update", dt)
     /\ UNCHANGED <<auto_compute_intensity_bounds_, point_decay_time_, th>>
     /\ UNCHANGED aux

update(dt) == AllIdle /\ Tick(dt)

\* setDecayTime, lines 162-172
AssignDecayTime(time) ==
  /\ point_decay_time_' = time
  /\ op' = [name |-> "setDecayTime", arg |-> time, n |-> 0, len |-> Len(clouds_)]
  /\ scen' = Follow("setDecayTime", time)
  /\ UNCHANGED <<clouds_, cloud_, new_cloud_, min_intensity_, max_intensity_,
                 auto_compute_intensity_bounds_, intensity_bounds_changed_,
                 channel_color_idx_, channel_options, th>>
  /\ UNCHANGED aux

setDecayTime(time) == AllIdle /\ AssignDecayTime(time)

\* a reset that forgets the renderer
ClearAll_KeepRenderer(name) ==
  /\ clouds_' = <<>>
  /\ op' = [name |-> name, arg |-> 0, n |-> 0, len |-> Len(clouds_)]
  /\ scen' = Follow(name, 0)
  /\ UNCHANGED <<cloud_, new_cloud_, min_intensity_, max_intensity_, auto_compute_intensity_bounds_,
                 intensity_bounds_changed_, channel_color_idx_, point_decay_time_,
                 channel_options, th>>
  /\ UNCHANGED aux

\* what reset (lines 658-666) and onDisable (lines 239-243) both do
ClearAll(name) ==
  /\ clouds_' = <<>>
  /\ cloud_' = clearPoints(cloud_)
  /\ op' = [name |-> name, arg |-> 0, n |-> 0, len |-> Len(clouds_)]
  /\ scen' = Follow(name, 0)
  /\ UNCHANGED <<new_cloud_, min_intensity_, max_intensity_, auto_compute_intensity_bounds_,
                 intensity_bounds_changed_, channel_color_idx_, point_decay_time_,
                 channel_options, th>>
  /\ UNCHANGED aux

reset == AllIdle /\ ClearAll("reset")

onDisable == AllIdle /\ ClearAll("onDisable")

\* fixedFrameChanged calls reset()
fixedFrameChanged == AllIdle /\ ClearAll("fixedFrameChanged")

Next ==
  \/ \E m \in Messages, tf_ok \in BOOLEAN : addMessage(m, tf_ok)
  \/ \E dt \in Dts : update(dt)
  \/ \E time \in DecayTimes : setDecayTime(time)
  \/ reset
  \/ onDisable
  \/ fixedFrameChanged

Spec == Init /\ [][Next]_vars

----------------------------------------------------------------------------
(* The setters of the intensity bounds, the style and the channel selection *)

\* setMinIntensity, lines 130-144
setMinIntensity(val) ==
  /\ AllIdle
  /\ min_intensity_' = ClampMin(val, max_intensity_)
  /\ op' = [name |-> "setMinIntensity", arg |-> val, n |-> 0, len |-> Len(clouds_)]
  /\ scen' = Follow("setMinIntensity", val)
  /\ UNCHANGED <<clouds_, cloud_, new_cloud_, max_intensity_, auto_compute_intensity_bounds_,
                 intensity_bounds_changed_, channel_color_idx_, point_decay_time_,
                 channel_options, th>>
  /\ UNCHANGED aux

\* setMaxIntensity, lines 146-160
setMaxIntensity(val) ==
  /\ AllIdle
  /\ max_intensity_' = ClampMax(val, min_intensity_)
  /\ op' = [name |-> "setMaxIntensity", arg |-> val, n |-> 0, len |-> Len(clouds_)]
  /\ scen' = Follow("setMaxIntensity", val)
  /\ UNCHANGED <<clouds_, cloud_, new_cloud_, min_intensity_, auto_compute_intensity_bounds_,
                 intensity_bounds_changed_, channel_color_idx_, point_decay_time_,
                 channel_options, th>>
  /\ UNCHANGED aux

\* setAutoComputeIntensityBounds, lines 174-184
setAutoComputeIntensityBounds(compute) ==
  /\ AllIdle
  /\ auto_compute_intensity_bounds_' = compute
  /\ op' = [name |-> "setAutoComputeIntensityBounds", arg |-> IF compute THEN 1 ELSE 0, n |-> 0,
            len |-> Len(clouds_)]
  /\ scen' = Follow("setAutoComputeIntensityBounds", compute)
  /\ UNCHANGED <<clouds_, cloud_, new_cloud_, min_intensity_, max_intensity_,
                 intensity_bounds_changed_, channel_color_idx_, point_decay_time_,
                 channel_options, th>>
  /\ UNCHANGED aux

\* setStyle, lines 186-204: ROS_ASSERT ends the program on a style >= StyleCount
setStyle(style) ==
  /\ AllIdle
  /\ style < StyleCount
  /\ style_' = style
  /\ op' = [name |-> "setStyle", arg |-> style, n |-> 0, len |-> Len(clouds_)]
  /\ scen' = Follow("setStyle", style)
  /\ UNCHANGED <<clouds_, cloud_, new_cloud_, min_intensity_, max_intensity_,
                 auto_compute_intensity_bounds_, intensity_bounds_changed_,
                 channel_color_idx_, point_decay_time_, channel_options,
                 clouds_mutex_, render_mutex_, th, rt, ui>>

\* setChannelColorIndex, lines 209-215: ROS_ASSERT ends the program on an index >= ChannelRenderCount
setChannelColorIndex(channel_color_idx) ==
  /\ AllIdle
  /\ channel_color_idx < ChannelRenderCount
  /\ channel_color_idx_' = channel_color_idx
  /\ op' = [name |-> "setChannelColorIndex", arg |-> channel_color_idx, n |-> 0, len |-> Len(clouds_)]
  /\ scen' = Follow("setChannelColorIndex", channel_color_idx)
  /\ UNCHANGED <<clouds_, cloud_, new_cloud_, min_intensity_, max_intensity_,
                 auto_compute_intensity_bounds_, intensity_bounds_changed_,
                 point_decay_time_, channel_options, th>>
  /\ UNCHANGED aux

\* runs of the intensity setters with ingest and ticks; the decay time stays 0
NextBounds ==
  \/ \E val \in BoundsVals : setMinIntensity(val)
  \/ \E val \in BoundsVals : setMaxIntensity(val)
  \/ \E compute \in BOOLEAN : setAutoComputeIntensityBounds(compute)
  \/ \E idx \in BoundsChannels : setChannelColorIndex(idx)
  \/ \E m \in BoundsMessages : addMessage(m, FALSE)
  \/ update(MaxAge)

SpecBounds == Init /\ [][NextBounds]_vars

\* runs of the style and channel setters with ingest and ticks; the decay time stays 0
NextChannels ==
  \/ \E style \in Styles : setStyle(style)
  \/ \E idx \in ChannelIndices : setChannelColorIndex(idx)
  \/ \E m \in ChannelMessages, tf_ok \in BOOLEAN : addMessage(m, tf_ok)
  \/ update(MaxAge)

SpecChannels == Init /\ [][NextChannels]_vars

\* runs of ingest with clouds whose normal channels may lack values
NextReads ==
  \/ \E idx \in ReadChannels : setChannelColorIndex(idx)
  \/ \E m \in ReadMessages, tf_ok \in BOOLEAN : addMessage(m, tf_ok)
  \/ update(MaxAge)

SpecReads == Init /\ [][NextReads]_vars

----------------------------------------------------------------------------
(* Concurrent ingest: addMessage runs on I/O threads in three steps, each    *)
(* atomic: the lock-free part of transformCloud (lines 402-593), its block   *)
(* under the render lock (lines 595-607), and processMessage's block under   *)
(* clouds_mutex_ (lines 386-397).  The render thread ticks and the UI thread *)
(* sets the decay time in between.                                           *)

\* the cloud each I/O thread delivers
ThreadMessage(t) == IF t = 1 THEN MsgA ELSE MsgB

transformCloud_compute(t, m, tf_ok) ==
  \E g \in StrayValues(m) :
  LET r == TransformCompute(m, tf_ok, auto_compute_intensity_bounds_, channel_color_idx_,
                            min_intensity_, max_intensity_, intensity_bounds_changed_, g)
  IN /\ th[t].pc = "idle"
     /\ th[t].sent < MaxSends
     /\ min_intensity_' = r.min
     /\ max_intensity_' = r.max
     /\ intensity_bounds_changed_' = r.changed
     /\ th' = [th EXCEPT ![t] = [pc |-> "transformed", sent |-> th[t].sent + 1,
                                 info |-> r.info, points |-> r.points,
                                 ok |-> IF tf_ok THEN 1 ELSE 0]]
     /\ scen' = -1
     /\ UNCHANGED <<clouds_, cloud_, new_cloud_, auto_compute_intensity_bounds_,
                    channel_color_idx_, point_decay_time_, channel_options, op>>
     /\ UNCHANGED aux

transformCloud_render(t) ==
  /\ th[t].pc = "transformed"
  /\ cloud_' = RenderPoints(cloud_, point_decay_time_, th[t].points)
  /\ th' = [th EXCEPT ![t].pc = "rendered"]
  /\ UNCHANGED <<clouds_, new_cloud_, min_intensity_, max_intensity_,
                 auto_compute_intensity_bounds_, intensity_bounds_changed_,
                 channel_color_idx_, point_decay_time_, channel_options, op, scen>>
  /\ UNCHANGED aux

processMessage_push(t) ==
  /\ th[t].pc = "rendered"
  /\ clouds_' = PushCloud(clouds_, point_decay_time_, th[t].info)
  /\ new_cloud_' = TRUE
  /\ th' = [th EXCEPT ![t] = [pc |-> "idle", sent |-> th[t].sent]]
  /\ op' = [name |-> "addMessage", arg |-> th[t].info.message_.id, n |-> th[t].ok,
            len |-> Len(clouds_)]
  /\ UNCHANGED <<cloud_, min_intensity_, max_intensity_, auto_compute_intensity_bounds_,
                 intensity_bounds_changed_, channel_color_idx_, point_decay_time_,
                 channel_options, scen>>
  /\ UNCHANGED aux

NextConc ==
  \/ \E t \in Threads, tf_ok \in BOOLEAN : transformCloud_compute(t, ThreadMessage(t), tf_ok)
  \/ \E t \in Threads : transformCloud_render(t)
  \/ \E t \in Threads : processMessage_push(t)
  \/ \E dt \in Dts : Tick(dt)
  \/ \E time \in DecayTimes : AssignDecayTime(time)

SpecConc == Init /\ [][NextConc]_vars

----------------------------------------------------------------------------
(* The same threads with the locks: clouds_mutex_ and the render lock that   *)
(* RenderAutoLock takes.  A thread that has taken a lock and has yet to      *)
(* touch the data stands between two steps, so that two threads inside the   *)
(* buffer at once is a state.  A step that touches the buffer is one of the  *)
(* two orders of a racing pair; what a torn std::deque would do is not       *)
(* modelled.                                                                 *)

\* the cloud each I/O thread delivers, the tick and the selection in these runs
LockMessage(t) == IF t = 1 THEN MsgA ELSE MsgW
LockDt == 3
LockChannels == {Intensity}

Owner(t) == IF t = 1 THEN "io1" ELSE "io2"

\* transformCloud, lines 595-607: RenderAutoLock, then the renderer
transformCloud_renderLocked(t) ==
  /\ render_mutex_ = ""
  /\ transformCloud_render(t)

\* processMessage, line 387: boost::mutex::scoped_lock lock(clouds_mutex_)
processMessage_lock(t) ==
  /\ th[t].pc = "rendered"
  /\ clouds_mutex_ = ""
  /\ clouds_mutex_' = Owner(t)
  /\ th' = [th EXCEPT ![t].pc = "push"]
  /\ UNCHANGED <<clouds_, cloud_, new_cloud_, min_intensity_, max_intensity_,
                 auto_compute_intensity_bounds_, intensity_bounds_changed_,
                 channel_color_idx_, point_decay_time_, channel_options,
                 style_, render_mutex_, rt, ui, op, scen>>

\* processMessage, lines 389-397, and the release of clouds_mutex_
processMessage_locked(t) ==
  /\ th[t].pc = "push"
  /\ clouds_' = PushCloud(clouds_, point_decay_time_, th[t].info)
  /\ new_cloud_' = TRUE
  /\ clouds_mutex_' = ""
  /\ th' = [th EXCEPT ![t] = [pc |-> "idle", sent |-> th[t].sent]]
  /\ op' = [name |-> "addMessage", arg |-> th[t].info.message_.id, n |-> th[t].ok,
            len |-> Len(clouds_)]
  /\ UNCHANGED <<cloud_, min_intensity_, max_intensity_, auto_compute_intensity_bounds_,
                 intensity_bounds_changed_, channel_color_idx_, point_decay_time_,
                 channel_options, style_, render_mutex_, rt, ui, scen>>

\* update, line 247: the test of intensity_bounds_changed_, with no lock held
update_begin(dt) ==
  /\ rt.pc = "idle"
  /\ \A i \in DOMAIN clouds_ : clouds_[i].time_ + dt <= MaxAge
  /\ rt' = [pc |-> IF intensity_bounds_changed_ THEN "setMin" ELSE "lock", dt |-> dt]
  /\ UNCHANGED <<clouds_, cloud_, new_cloud_, min_intensity_, max_intensity_,
                 auto_compute_intensity_bounds_, intensity_bounds_changed_,
                 channel_color_idx_, point_decay_time_, channel_options,
                 style_, clouds_mutex_, render_mutex_, th, ui, op, scen>>

\* update, line 249: setMinIntensity(min_intensity_); rt.min is the value it announces
update_setMinIntensity ==
  /\ rt.pc = "setMin"
  /\ min_intensity_' = ClampMin(min_intensity_, max_intensity_)
  /\ rt' = [pc |-> "setMax", dt |-> rt.dt, min |-> min_intensity_']
  /\ UNCHANGED <<clouds_, cloud_, new_cloud_, max_intensity_,
                 auto_compute_intensity_bounds_, intensity_bounds_changed_,
                 channel_color_idx_, point_decay_time_, channel_options,
                 style_, clouds_mutex_, render_mutex_, th, ui, op, scen>>

\* update, line 250: setMaxIntensity(max_intensity_); rt.max is the value it announces
update_setMaxIntensity ==
  /\ rt.pc = "setMax"
  /\ max_intensity_' = ClampMax(max_intensity_, min_intensity_)
  /\ rt' = [pc |-> "clear", dt |-> rt.dt, min |-> rt.min, max |-> max_intensity_']
  /\ UNCHANGED <<clouds_, cloud_, new_cloud_, min_intensity_,
                 auto_compute_intensity_bounds_, intensity_bounds_changed_,
                 channel_color_idx_, point_decay_time_, channel_options,
                 style_, clouds_mutex_, render_mutex_, th, ui, op, scen>>

\* update, line 251: intensity_bounds_changed_ = false
update_clearChanged ==
  /\ rt.pc = "clear"
  /\ intensity_bounds_changed_' = FALSE
  /\ rt' = [pc |-> "lock", dt |-> rt.dt]
  /\ UNCHANGED <<clouds_, cloud_, new_cloud_, min_intensity_, max_intensity_,
                 auto_compute_intensity_bounds_, channel_color_idx_,
                 point_decay_time_, channel_options,
                 style_, clouds_mutex_, render_mutex_, th, ui, op, scen>>

\* update, line 255: boost::mutex::scoped_lock lock(clouds_mutex_)
update_lock ==
  /\ rt.pc = "lock"
  /\ clouds_mutex_ = ""
  /\ clouds_mutex_' = "rt"
  /\ rt' = [pc |-> "tick", dt |-> rt.dt]
  /\ UNCHANGED <<clouds_, cloud_, new_cloud_, min_intensity_, max_intensity_,
                 auto_compute_intensity_bounds_, intensity_bounds_changed_,
                 channel_color_idx_, point_decay_time_, channel_options,
                 style_, render_mutex_, th, ui, op, scen>>

\* update, lines 257-343, and the release of clouds_mutex_
update_locked ==
  LET aged == [q |-> AgeAll(clouds_, rt.dt), rc |-> cloud_, removed |-> 0]
      ev == EvictIfDecaying(aged, point_decay_time_)
      refresh == new_cloud_ /\ ev.q # <<>>
      r == RefreshChannels(Head(ev.q).message_.chan, 1, [idx |-> channel_color_idx_, options |-> <<>>])
  IN /\ rt.pc = "tick"
     /\ clouds_' = ev.q
     /\ cloud_' = ev.rc
     /\ channel_options' = IF refresh THEN r.options ELSE channel_options
     /\ channel_color_idx_' = IF refresh THEN r.idx ELSE channel_color_idx_
     /\ new_cloud_' = FALSE
     /\ clouds_mutex_' = ""
     /\ rt' = [pc |-> "idle"]
     /\ op' = [name |-> "update", arg |-> rt.dt, n |-> ev.removed, len |-> Len(clouds_)]
     /\ UNCHANGED <<min_intensity_, max_intensity_, auto_compute_intensity_bounds_,
                    intensity_bounds_changed_, point_decay_time_,
                    style_, render_mutex_, th, ui, scen>>

\* reset, line 661: RenderAutoLock renderLock(this)
reset_lock ==
  /\ ui.pc = "idle"
  /\ render_mutex_ = ""
  /\ render_mutex_' = "ui"
  /\ ui' = [pc |-> "reset"]
  /\ UNCHANGED <<clouds_, cloud_, new_cloud_, min_intensity_, max_intensity_,
                 auto_compute_intensity_bounds_, intensity_bounds_changed_,
                 channel_color_idx_, point_decay_time_, channel_options,
                 style_, clouds_mutex_, th, rt, op, scen>>

\* reset, lines 663-665, and the release of the render lock
reset_locked ==
  /\ ui.pc = "reset"
  /\ clouds_' = <<>>
  /\ cloud_' = clearPoints(cloud_)
  /\ render_mutex_' = ""
  /\ ui' = [pc |-> "idle"]
  /\ op' = [name |-> "reset", arg |-> 0, n |-> 0, len |-> Len(clouds_)]
  /\ UNCHANGED <<new_cloud_, min_intensity_, max_intensity_,
                 auto_compute_intensity_bounds_, intensity_bounds_changed_,
                 channel_color_idx_, point_decay_time_, channel_options,
                 style_, clouds_mutex_, th, rt, scen>>

\* onDisable, lines 239-240: the call is entered; no lock is taken
onDisable_begin ==
  /\ ui.pc = "idle"
  /\ ui' = [pc |-> "onDisable"]
  /\ UNCHANGED <<clouds_, cloud_, new_cloud_, min_intensity_, max_intensity_,
                 auto_compute_intensity_bounds_, intensity_bounds_changed_,
                 channel_color_idx_, point_decay_time_, channel_options,
                 style_, clouds_mutex_, render_mutex_, th, rt, op, scen>>

\* onDisable, lines 241-242
onDisable_clear ==
  /\ ui.pc = "onDisable"
  /\ clouds_' = <<>>
  /\ cloud_' = clearPoints(cloud_)
  /\ ui' = [pc |-> "idle"]
  /\ op' = [name |-> "onDisable", arg |-> 0, n |-> 0, len |-> Len(clouds_)]
  /\ UNCHANGED <<new_cloud_, min_intensity_, max_intensity_,
                 auto_compute_intensity_bounds_, intensity_bounds_changed_,
                 channel_color_idx_, point_decay_time_, channel_options,
                 style_, clouds_mutex_, render_mutex_, th, rt, scen>>

NextLocks ==
  \/ \E t \in Threads : transformCloud_compute(t, LockMessage(t), TRUE)
  \/ \E t \in Threads : transformCloud_renderLocked(t)
  \/ \E t \in Threads : processMessage_lock(t)
  \/ \E t \in Threads : processMessage_locked(t)
  \/ update_begin(LockDt)
  \/ update_setMinIntensity
  \/ update_setMaxIntensity
  \/ update_clearChanged
  \/ update_lock
  \/ update_locked
  \/ reset_lock
  \/ reset_locked
  \/ onDisable_begin
  \/ onDisable_clear
  \/ \E time \in DecayTimes : ui.pc = "idle" /\ AssignDecayTime(time)
  \/ \E idx \in LockChannels : ui.pc = "idle" /\ setChannelColorIndex(idx)

SpecLocks == Init /\ [][NextLocks]_vars

----------------------------------------------------------------------------
(* Properties *)

BufferIds == [i \in DOMAIN clouds_ |-> clouds_[i].message_.id]
RendererSrcs == [i \in DOMAIN cloud_ |-> cloud_[i].src]

\* the cloud as it was passed to addMessage
Message(id) == CHOOSE m \in AllMessages : m.id = id

RECURSIVE SumPoints(_)
SumPoints(q) == IF q = <<>> THEN 0 ELSE Head(q).num_points_ + SumPoints(Tail(q))

RECURSIVE SumFirst(_, _)
SumFirst(q, k) == IF k = 0 THEN 0 ELSE q[k].num_points_ + SumFirst(q, k - 1)

\* the owners of the renderer's points if every entry's segment is there, in buffer order
RECURSIVE Segments(_)
Segments(q) ==
  IF q = <<>> THEN <<>>
  ELSE [i \in 1..Head(q).num_points_ |-> Head(q).message_.id] \o Segments(Tail(q))

\* C1: after any sequence of complete calls of addMessage, update, setDecayTime,
\* reset, onDisable and fixedFrameChanged, the number of points the renderer
\* holds is the sum of point_count over the entries of the buffer.
C1_RendererTotal == Len(cloud_) = SumPoints(clouds_)

C1_Witness ==
  /\ op.name = "update" /\ op.n >= 1
  /\ Len(clouds_) >= 1 /\ Len(cloud_) >= 2

\* C2: min_intensity <= max_intensity in every observable state.
C2_BoundsOrdered == min_intensity_ <= max_intensity_

\* C3: if decay_time = 0 the buffer holds at most one entry, in every state.
C3_DecayZeroSingle == point_decay_time_ = 0 => Len(clouds_) <= 1

\* C4: the buffer is ordered oldest first: for positions i < j the entry at i
\* is at least as old as the entry at j.
C4_OldestFirst ==
  \A i, j \in DOMAIN clouds_ : i < j => clouds_[i].time_ >= clouds_[j].time_

C4_Witness ==
  /\ Len(clouds_) >= 2
  /\ clouds_[1].time_ > clouds_[2].time_
  /\ clouds_[2].time_ > 0

\* C5: right after reset, onDisable or fixedFrameChanged returns, the buffer
\* is empty and the renderer holds no points, whatever the state before.
C5_ClearedAfterReset ==
  op.name \in {"reset", "onDisable", "fixedFrameChanged"} => clouds_ = <<>> /\ cloud_ = <<>>

C5_Witness == op.name = "fixedFrameChanged" /\ op.len >= 2 /\ clouds_ = <<>>

\* C6: addMessage never drops a cloud: whether or not the TF reprojection
\* fails, a channel is malformed or nx comes without ny/nz, the call ends with
\* exactly one new entry for the message at the tail of the buffer, with
\* point_count the message's number of points, and as many points added to
\* the renderer.
C6_NeverDropped ==
  [][op'.name = "addMessage" =>
       LET m == Message(op'.arg)
           kept == IF point_decay_time_ = 0 THEN <<>> ELSE clouds_
           held == IF point_decay_time_ = 0 THEN <<>> ELSE cloud_
           n == Len(clouds_')
       IN /\ n = Len(kept) + 1
          /\ SubSeq(clouds_', 1, n - 1) = kept
          /\ clouds_'[n].message_.id = m.id
          /\ clouds_'[n].num_points_ = Len(m.pts)
          /\ Len(cloud_') = Len(held) + Len(m.pts)
          /\ SubSeq(cloud_', 1, Len(held)) = held
          /\ \A i \in (Len(held) + 1)..Len(cloud_') : cloud_'[i].src = m.id]_vars

\* witness: B (nx without ny/nz, a malformed channel) was added while
\* NormalSphere was selected and its TF reprojection failed
C6_Witness ==
  /\ op.name = "addMessage" /\ op.arg = "B" /\ op.n = 0
  /\ channel_color_idx_ = NormalSphere
  /\ point_decay_time_ > 0 /\ op.len = 1
  /\ Len(clouds_) = 2 /\ clouds_[2].num_points_ = 3

\* C7: with decay_time > 0 the eviction of update(dt) is FIFO and complete:
\* the entries removed are a prefix of the buffer, each takes its point_count
\* off the head of the renderer, each is older than decay_time after dt is
\* added, and no entry older than decay_time remains.
C7_EvictionFifo ==
  [][(op'.name = "update" /\ point_decay_time_ > 0) =>
       LET dt == op'.arg
           k == Len(clouds_) - Len(clouds_')
       IN /\ k >= 0
          /\ \A i \in DOMAIN clouds_' :
               /\ clouds_'[i] = [clouds_[k + i] EXCEPT !.time_ = @ + dt]
               /\ clouds_'[i].time_ <= point_decay_time_
          /\ \A i \in 1..k : clouds_[i].time_ + dt > point_decay_time_
          /\ cloud_' = SubSeq(cloud_, SumFirst(clouds_, k) + 1, Len(cloud_))
          /\ SubSeq(RendererSrcs, 1, SumFirst(clouds_, k)) = Segments(SubSeq(clouds_, 1, k))]_vars

\* witness: a tick evicted the head and kept an entry whose age is exactly decay_time
C7_Witness ==
  /\ op.name = "update" /\ op.n = 1 /\ op.len = 2
  /\ point_decay_time_ > 0
  /\ Len(clouds_) = 1 /\ clouds_[1].time_ = point_decay_time_

\* C8 as stated: with decay_time 0.5, after push A (2 points), tick 0.1, push B
\* (3 points), tick 1.0, the buffer is [B] and the renderer total is 3.
C8_ScenarioKeepsB ==
  scen = Len(Scenario) => BufferIds = <<"B">> /\ Len(cloud_) = 3

\* C8 amended: before the last tick the buffer is [A, B] over the renderer
\* segments A, A, B, B, B; the tick of 1.0 makes both entries older than 0.5,
\* so it evicts A and then B and leaves buffer and renderer empty.
C8_ScenarioEvictsBoth ==
  /\ scen = Len(Scenario) - 1 =>
       /\ BufferIds = <<"A", "B">>
       /\ RendererSrcs = <<"A", "A", "B", "B", "B">>
       /\ clouds_[1].time_ = 1 /\ clouds_[2].time_ = 0
  /\ scen = Len(Scenario) =>
       /\ op.name = "update" /\ op.n = 2
       /\ clouds_ = <<>> /\ cloud_ = <<>>

C8_Witness == scen = Len(Scenario) /\ op.name = "update" /\ op.arg = 10 /\ op.len = 2

\* C9: when addMessage(B) completes while decay_time = 0, the buffer is exactly
\* [B] and the renderer holds exactly B's points, whatever was there before.
C9_DecayZeroCollapse ==
  [][(op'.name = "addMessage" /\ point_decay_time_ = 0) =>
       LET m == Message(op'.arg)
       IN /\ Len(clouds_') = 1
          /\ clouds_'[1].message_.id = m.id
          /\ clouds_'[1].time_ = 0
          /\ clouds_'[1].num_points_ = Len(m.pts)
          /\ Len(cloud_') = Len(m.pts)
          /\ \A i \in DOMAIN cloud_' : cloud_'[i].src = m.id]_vars

\* witness: B was added with decay_time = 0 to a buffer that held two entries
C9_Witness ==
  /\ op.name = "addMessage" /\ op.arg = "B" /\ op.len = 2
  /\ point_decay_time_ = 0
  /\ BufferIds = <<"B">> /\ Len(cloud_) = 3

\* C10: for any interleaving of two or more addMessage calls, the entries are
\* in the buffer in the order in which their point segments are in the
\* renderer: once the calls have returned, every renderer point of an entry
\* precedes every renderer point of the entries behind it in the buffer.
C10_SameOrder ==
  AllIdle =>
    \A i, j \in DOMAIN clouds_ :
      (i < j /\ BufferIds[i] # BufferIds[j]) =>
        \A p, q \in DOMAIN cloud_ :
          (cloud_[p].src = BufferIds[i] /\ cloud_[q].src = BufferIds[j]) => p < q

\* C13: starting from min_intensity_ <= max_intensity_, setMinIntensity(v) leaves
\* max_intensity_ alone and sets min_intensity_ to min(v, max_intensity_),
\* setMaxIntensity(v) leaves min_intensity_ alone and sets max_intensity_ to
\* max(v, min_intensity_), and the bounds are ordered after either setter.
C13_SettersClamp ==
  [][ /\ (op'.name = "setMinIntensity" /\ min_intensity_ <= max_intensity_) =>
           /\ max_intensity_' = max_intensity_
           /\ min_intensity_' = Min(op'.arg, max_intensity_)
           /\ min_intensity_' <= max_intensity_'
      /\ (op'.name = "setMaxIntensity" /\ min_intensity_ <= max_intensity_) =>
           /\ min_intensity_' = min_intensity_
           /\ max_intensity_' = Max(op'.arg, min_intensity_)
           /\ min_intensity_' <= max_intensity_' ]_vars

\* a setMinIntensity whose argument was above max_intensity_ has returned
C13_Witness ==
  /\ op.name = "setMinIntensity"
  /\ op.arg > max_intensity_
  /\ min_intensity_ = max_intensity_

\* C14: in every reachable state style_ is Billboards or Points and
\* channel_color_idx_ is -1 or one of the four channel roles.
C14_EnumsInRange ==
  /\ style_ \in {Billboards, Points}
  /\ channel_color_idx_ \in {-1, Intensity, ColorRGBSpace, NormalSphere, Curvature}

\* C15: addMessage leaves the message's points and every channel's values as
\* they were passed in: the message the new buffer entry shares with the caller
\* still has the original points and channel values.
C15_MessageUntouched ==
  [][ op'.name = "addMessage" =>
        LET message_ == clouds_'[Len(clouds_')].message_
            m == Message(op'.arg)
        IN /\ message_.pts = m.pts
           /\ message_.chan = m.chan ]_vars

\* the names of the channels that carry a role's values
RoleNames(idx) ==
  IF idx = Intensity THEN {"intensity", "intensities"}
  ELSE IF idx = Curvature THEN {"curvature", "curvatures"}
  ELSE {}

\* the values of a channel after capping each at 4096
Capped(vals) == {Min(vals[i], IntensityCap) : i \in DOMAIN vals}

\* C16: with auto bounds on, Intensity or Curvature selected and a well-formed
\* channel of that role in the cloud, addMessage sets min_intensity_ to the
\* minimum and max_intensity_ to the maximum of the channel's capped values
\* and raises intensity_bounds_changed_; otherwise it leaves all three alone.
C16_Autoscale ==
  [][ op'.name = "addMessage" =>
        LET m == Message(op'.arg)
            Sel == {i \in DOMAIN m.chan :
                      /\ Len(m.chan[i].vals) = Len(m.pts)
                      /\ m.chan[i].name \in RoleNames(channel_color_idx_)}
        IN IF auto_compute_intensity_bounds_ /\ Sel # {}
           THEN /\ intensity_bounds_changed_'
                /\ \E i \in Sel :
                     LET V == Capped(m.chan[i].vals)
                     IN /\ min_intensity_' \in V /\ \A v \in V : min_intensity_' <= v
                        /\ max_intensity_' \in V /\ \A v \in V : max_intensity_' >= v
           ELSE UNCHANGED <<min_intensity_, max_intensity_, intensity_bounds_changed_>> ]_vars

\* the role the Channel option gives to a channel name, -1 for a name it does not know
RoleOf(name) ==
  IF name \in {"intensity", "intensities"} THEN Intensity
  ELSE IF name \in {"rgb", "r"} THEN ColorRGBSpace
  ELSE IF name = "nx" THEN NormalSphere
  ELSE IF name \in {"curvature", "curvatures"} THEN Curvature
  ELSE -1

\* the roles found among a cloud's channels
Roles(chan) == {RoleOf(chan[i].name) : i \in DOMAIN chan} \ {-1}

\* C17: when update refreshes the Channel options over a buffer of two or more
\* entries (decay time > 0), the options offered are those of the channels of
\* the most recently inserted entry, the buffer's tail.
C17_OptionsFromNewest ==
  [][ (/\ op'.name = "update"
       /\ new_cloud_
       /\ point_decay_time_ > 0
       /\ Len(clouds_') >= 2) =>
        {channel_options'[i] : i \in DOMAIN channel_options'}
          = Roles(clouds_'[Len(clouds_')].message_.chan) ]_vars

\* the values of the channel of a cloud that has the given name
ValuesOf(m, name) == m.chan[CHOOSE i \in DOMAIN m.chan : m.chan[i].name = name].vals

\* C18: addMessage takes every output point's coordinates from the message's
\* xyz points, except when NormalSphere is selected and the cloud has all of
\* nx, ny and nz, when it takes them from those channels; in particular a
\* cloud with nx but no ny or nz is drawn at its xyz points.
C18_NormalFallback ==
  [][ op'.name = "addMessage" =>
        LET m == Message(op'.arg)
            names == {m.chan[i].name : i \in DOMAIN m.chan}
            xyz == clouds_'[Len(clouds_')].message_.pts
            normals == channel_color_idx_ = NormalSphere /\ {"nx", "ny", "nz"} \subseteq names
        IN /\ Len(cloud_') = Len(xyz)
           /\ \A i \in DOMAIN xyz :
                cloud_'[i].pos =
                  IF normals
                  THEN robotToOgre(Pt(ValuesOf(m, "nx")[i], ValuesOf(m, "ny")[i], ValuesOf(m, "nz")[i]))
                  ELSE robotToOgre(xyz[i]) ]_vars

\* cloud B, with nx and neither ny nor nz, was ingested with NormalSphere selected
C18_Witness ==
  /\ op.name = "addMessage"
  /\ op.arg = "B"
  /\ channel_color_idx_ = NormalSphere
  /\ Len(cloud_) = 3
  /\ cloud_[1].pos \in {robotToOgre(MsgB.pts[1]), robotToOgre(transformPointCloud(MsgB.pts)[1])}

\* C20: when update refreshes the Channel options with channel_color_idx_ = -1,
\* the selection becomes the role of the first channel of the cloud whose name
\* is recognized, or stays -1 when none is; with a selection already made the
\* refresh leaves it alone.
C20_DefaultSelection ==
  [][ (op'.name = "update" /\ new_cloud_ /\ clouds_' # <<>>) =>
        LET chan == Head(clouds_').message_.chan
            Known == {i \in DOMAIN chan : RoleOf(chan[i].name) # -1}
            first == CHOOSE i \in Known : \A j \in Known : i <= j
        IN channel_color_idx_' =
             IF channel_color_idx_ # -1 THEN channel_color_idx_
             ELSE IF Known = {} THEN -1
             ELSE RoleOf(chan[first].name) ]_vars

\* update has refreshed the options from cloud K (g, r, curvatures) and the
\* selection is the role of r, its first recognized channel
C20_Witness ==
  /\ op.name = "update"
  /\ clouds_ # <<>>
  /\ Head(clouds_).message_.id = "K"
  /\ channel_options = <<ColorRGBSpace, Curvature>>
  /\ channel_color_idx_ = ColorRGBSpace

\* the threads that stand inside an access to the buffer: processMessage's
\* insertion, update's tick, reset's and onDisable's clear
InBuffer ==
  {Owner(t) : t \in {u \in Threads : th[u].pc = "push"}}
    \cup (IF rt.pc = "tick" THEN {"rt"} ELSE {})
    \cup (IF ui.pc \in {"reset", "onDisable"} THEN {"ui"} ELSE {})

\* C11: the insertion of addMessage, the tick of update, reset and onDisable
\* touch the buffer only while holding one and the same lock, so no two of
\* them are ever inside the buffer at the same time.
C11_BufferSerialized == Cardinality(InBuffer) <= 1

\* every operation has returned
Quiescent == AllIdle /\ rt.pc = "idle" /\ ui.pc = "idle"

\* C12: when one addMessage has run on an I/O thread, interleaved with reset,
\* onDisable, setDecayTime and update on other threads, and every operation
\* has returned, the renderer holds as many points as the buffered entries
\* count together.
C12_CountAligned ==
  (Quiescent /\ th[1].sent = 1 /\ th[2].sent = 0) => Len(cloud_) = SumPoints(clouds_)

\* C19: when update clears intensity_bounds_changed_, the bounds it announced
\* through setMinIntensity and setMaxIntensity are the bounds the display has:
\* no autoscale has changed them since without being announced.
C19_BroadcastCurrent ==
  [][ (rt.pc = "clear" /\ rt'.pc = "lock") =>
        (rt.min = min_intensity_ /\ rt.max = max_intensity_) ]_vars

\* C21: every channel that addMessage reads at each point index, for a colour
\* or for a normal-sphere coordinate, has as many values as the cloud has
\* points.
C21_ReadsInBounds ==
  [][ op'.name = "addMessage" =>
        \A c \in op'.reads :
          Len(Message(op'.arg).chan[c].vals) = Len(Message(op'.arg).pts) ]_vars

\* C22: with point_decay_time_ = 0, update(dt) removes nothing: the buffer keeps
\* its entries, each older by dt and otherwise the same, and the renderer
\* keeps its points.
C22_NoDecayNoRemoval ==
  [][ (op'.name = "update" /\ point_decay_time_ = 0) =>
        /\ Len(clouds_') = Len(clouds_)
        /\ \A i \in DOMAIN clouds_ :
             clouds_'[i] = [clouds_[i] EXCEPT !.time_ = @ + op'.arg]
        /\ cloud_' = cloud_ ]_vars

\* with no decay, update has aged a non-empty buffer to the decay time of the
\* other runs and beyond, and the renderer still holds the points
C22_Witness ==
  /\ op.name = "update"
  /\ point_decay_time_ = 0
  /\ clouds_ # <<>>
  /\ clouds_[1].time_ > 5
  /\ cloud_ # <<>>
  /\ Len(cloud_) = SumPoints(clouds_)

\* C23: after update has refreshed the Channel options, channel_color_idx_ is
\* -1 or one of the roles just offered.
C23_SelectionOffered ==
  [][ (op'.name = "update" /\ new_cloud_ /\ clouds_' # <<>>) =>
        \/ channel_color_idx_' = -1
        \/ channel_color_idx_' \in {channel_options'[i] : i \in DOMAIN channel_options'} ]_vars

====
